---- MODULE Spec2Model ----
(***************************************************************************)
(* Authentication / session core of the collaboration API:                 *)
(* credential codec (utils/jwt.js), start-up configuration (config/env.js),*)
(* common response helpers (utils/http.js), the refresh-token ledger       *)
(* (user_refresh_tokens) and the login / social login / refresh / logout   *)
(* handlers together with the administrative user update.                  *)
(*                                                                         *)
(* Time is counted in whole seconds (the resolution of the iat / exp       *)
(* claims).  SHA-256 is taken to be collision free.                        *)
(***************************************************************************)
EXTENDS Integers, Sequences, FiniteSets, TLC

\* ------------------------------------------------------------------ bounds
\* The clock visits the instants Instant(0) .. Instant(MaxInstant).
MaxInstant == 2

\* Workspaces that get created.
MaxWorkspaces == 1
\* The value up to which a rate counter is driven.
MaxCount == 7

\* ------------------------------------------------------- program constants
Week == 604800
Day == 86400
DefaultAccessTtl == 900
\* rateLimit({ windowSec: 60, max: 5, ... }) in front of POST /login
LoginWindowSec == 60
LoginMax == 5

Users == {1}
\* The rows of the users table; account 2 signs in only where two users
\* are needed, and owns workspaces.
Accounts == Users \cup {2}
Procs == {"p1", "p2"}
Roles == {"USER", "ADMIN"}
Statuses == {"ACTIVE", "SUSPENDED", "DELETED"}

NULL == -1
NoTx == "none"

\* ---------------------------------------------------------- configuration
\* A duration setting is the text of JWT_*_EXPIRES split into its digits
\* and its unit suffix; Undefined is an unset environment variable.
Undefined == [n |-> 0, unit |-> "undefined"]

\* config/env.js: must(name) rejects undefined, null and blank values.
must(v) == v # "undefined" /\ v # ""

AccessSecrets == {"", "k1"}
RefreshSecrets == {"", "k1", "k2"}
RefreshExpiresSettings == {Undefined, [n |-> 8, unit |-> "days"]}
AccessExpiresSettings == {Undefined}

ProcessEnv ==
  [JWT_ACCESS_SECRET : AccessSecrets, JWT_REFRESH_SECRET : RefreshSecrets,
   JWT_ACCESS_EXPIRES : AccessExpiresSettings,
   JWT_REFRESH_EXPIRES : RefreshExpiresSettings]

\* config/env.js: the exported env object; start-up throws unless both
\* secrets pass must(); unset durations fall back to "900s" and "7d".
envAccepted(pe) == must(pe.JWT_ACCESS_SECRET) /\ must(pe.JWT_REFRESH_SECRET)

\* The deployments examined: every accepted combination of secrets under
\* the default lifetime, and the long-named lifetime with distinct secrets.
Deployments ==
  {pe \in ProcessEnv : /\ envAccepted(pe)
                       /\ \/ pe.JWT_REFRESH_EXPIRES = Undefined
                          \/ pe.JWT_REFRESH_SECRET # pe.JWT_ACCESS_SECRET}

envOf(pe) ==
  [JWT_ACCESS_SECRET |-> pe.JWT_ACCESS_SECRET,
   JWT_REFRESH_SECRET |-> pe.JWT_REFRESH_SECRET,
   JWT_ACCESS_EXPIRES |->
     IF pe.JWT_ACCESS_EXPIRES = Undefined
       THEN [n |-> DefaultAccessTtl, unit |-> "s"] ELSE pe.JWT_ACCESS_EXPIRES,
   JWT_REFRESH_EXPIRES |->
     IF pe.JWT_REFRESH_EXPIRES = Undefined
       THEN [n |-> 7, unit |-> "d"] ELSE pe.JWT_REFRESH_EXPIRES]

\* ------------------------------------------------------- credential codec
\* utils/jwt.js parseExpiresToSeconds: digits only are seconds; digits with
\* one of s, m, h, d are scaled; anything else yields the fallback.
parseExpiresToSeconds(raw, fallbackSeconds) ==
  IF raw.unit = "undefined" THEN fallbackSeconds
  ELSE IF raw.unit = "" THEN raw.n
  ELSE IF raw.unit \in {"s", "m", "h", "d"}
    THEN raw.n * (IF raw.unit = "s" THEN 1
                  ELSE IF raw.unit = "m" THEN 60
                  ELSE IF raw.unit = "h" THEN 3600 ELSE Day)
  ELSE fallbackSeconds

\* The span jwt.sign gives to expiresIn when it is handed the same text:
\* a bare number string counts milliseconds, and the long unit names
\* ("days") are understood as well.
jwtTimespan(raw) ==
  IF raw.unit = "" THEN raw.n \div 1000
  ELSE IF raw.unit = "s" THEN raw.n
  ELSE IF raw.unit = "m" THEN raw.n * 60
  ELSE IF raw.unit = "h" THEN raw.n * 3600
  ELSE raw.n * Day

accessTtlSeconds(e) == parseExpiresToSeconds(e.JWT_ACCESS_EXPIRES, DefaultAccessTtl)
refreshTtlSeconds(e) == parseExpiresToSeconds(e.JWT_REFRESH_EXPIRES, 7 * Day)

\* String(u.id) and parseInt(payload.sub, 10)
String(id) == [str |-> id]
parseInt(s) == s.str

\* A token is its claim set together with the secret its signature was
\* made with; the signature is valid exactly for that secret.
jwtSign(payload, secret, span, t) ==
  [sub |-> payload.sub, role |-> payload.role, iat |-> t, exp |-> t + span,
   key |-> secret]

signAccessToken(e, payload, t) ==
  jwtSign(payload, e.JWT_ACCESS_SECRET, jwtTimespan(e.JWT_ACCESS_EXPIRES), t)

signRefreshToken(e, payload, t) ==
  jwtSign(payload, e.JWT_REFRESH_SECRET, jwtTimespan(e.JWT_REFRESH_EXPIRES), t)

\* jwt.verify: signature first, then expiry.
jwtVerify(token, secret, t) ==
  IF token.key # secret THEN [ok |-> FALSE, name |-> "JsonWebTokenError"]
  ELSE IF t >= token.exp THEN [ok |-> FALSE, name |-> "TokenExpiredError"]
  ELSE [ok |-> TRUE, name |-> ""]

verifyAccessToken(e, token, t) == jwtVerify(token, e.JWT_ACCESS_SECRET, t)
verifyRefreshToken(e, token, t) == jwtVerify(token, e.JWT_REFRESH_SECRET, t)

hashToken(token) == [sha256 |-> token]

\* Request inputs that are not issued tokens.
NoToken == [sub |-> String(0), role |-> "", iat |-> 0, exp |-> 0, key |-> "absent"]
Garbage == [sub |-> String(0), role |-> "", iat |-> 0, exp |-> 0, key |-> "garbage"]

\* ------------------------------------------------------------- responses
\* utils/errorCodes.js
ERROR ==
  [BAD_REQUEST |-> [status |-> 400], VALIDATION_FAILED |-> [status |-> 400],
   INVALID_QUERY_PARAM |-> [status |-> 400],
   UNAUTHORIZED |-> [status |-> 401], TOKEN_EXPIRED |-> [status |-> 401],
   FORBIDDEN |-> [status |-> 403],
   RESOURCE_NOT_FOUND |-> [status |-> 404], USER_NOT_FOUND |-> [status |-> 404],
   DUPLICATE_RESOURCE |-> [status |-> 409], STATE_CONFLICT |-> [status |-> 409],
   UNPROCESSABLE_ENTITY |-> [status |-> 422],
   TOO_MANY_REQUESTS |-> [status |-> 429],
   INTERNAL_SERVER_ERROR |-> [status |-> 500], DATABASE_ERROR |-> [status |-> 500],
   UNKNOWN_ERROR |-> [status |-> 500]]

Thrown(name, message) ==
  [sent |-> FALSE, success |-> FALSE, status |-> 0, code |-> name, message |-> message]

NoResponse == [sent |-> FALSE, success |-> FALSE, status |-> 0, code |-> "", message |-> ""]

\* utils/http.js sendOk
sendOk(message) ==
  [sent |-> TRUE, success |-> TRUE, status |-> 200, code |-> "OK", message |-> message]

\* utils/http.js:22 compares httpStatus with `expected`, a name that no
\* scope of the module declares.
expectedIsDeclared == FALSE

\* utils/http.js sendError(res, code, message)
sendError(code, message) ==
  IF code \notin DOMAIN ERROR THEN Thrown("Error", "Unknown error code")
  ELSE IF ~expectedIsDeclared
    THEN Thrown("ReferenceError", "expected is not defined")
  ELSE [sent |-> TRUE, success |-> FALSE, status |-> ERROR[code].status,
        code |-> code, message |-> message]

\* ------------------------------------------------------------------ state
VARIABLES
  env,      \* config/env.js: the configuration fixed at start-up
  now,      \* Date.now(), in seconds
  users,    \* users table: role and status per id
  ledger,   \* user_refresh_tokens rows, uncommitted changes included
  cookies,  \* every cookie value a response has handed to a client
  rq,       \* the POST /refresh requests inside their transaction
  last,     \* the most recently completed request and its outcome
  workspaces,  \* workspaces table: the ids that exist
  members,     \* workspace_members table: <<workspace_id, user_id>>
  store,       \* the shared counter store (Redis): key -> count and expiry
  lim,         \* the rate-limited requests inside the middleware
  cached       \* the response cache (Redis): key -> stored body and expiry

vars ==
  <<env, now, users, ledger, cookies, rq, last, workspaces, members, store, lim, cached>>

\* What the session handlers never touch.
apart == <<workspaces, members, store, lim, cached>>

\* What a handler did last: the arguments it gave sendError / sendOk and
\* what that call produced.
Call(code, message) == [code |-> code, message |-> message, res |-> sendError(code, message)]
OkCall(message) == [code |-> "OK", message |-> message, res |-> sendOk(message)]
NoCall == [code |-> "", message |-> "", res |-> NoResponse]

\* A sendError inside a try block that throws lands in the handler's catch.
Caught(c, code, message) == IF c.res.sent THEN c ELSE Call(code, message)

IdleRq ==
  [pc |-> "idle", token |-> NoToken, userId |-> 0, row |-> 0, undo |-> NULL,
   updated |-> FALSE, role |-> "", newAccess |-> NoToken, newRefresh |-> NoToken,
   newRow |-> 0]

\* req.auth as requireAuth / requireSession leave it, and the RateLimit-*
\* headers as rateLimitMiddleware leaves them on res.
NoAuth == [userId |-> 0, role |-> ""]
NoHeaders == [set |-> FALSE, limit |-> 0, remaining |-> 0, window |-> 0]

\* A response body of a cached route: content is what the handler read;
\* by is history only, the user whose request the handler produced it for.
NoBody == [by |-> 0, content |-> {}]

\* A completed request: next tells whether its route handler was reached;
\* workspaceId and allowAdmin are the route parameter and the gate option
\* of a workspace-scoped request; hit tells whether the cache middleware
\* answered it, body is the body sent and before the history of the cache
\* entry it came from.
Ended(op, token, err, dup, out, next, auth, headers) ==
  [op |-> op, token |-> token, err |-> err, dup |-> dup, out |-> out,
   next |-> next, auth |-> auth, headers |-> headers,
   workspaceId |-> 0, allowAdmin |-> FALSE,
   hit |-> FALSE, body |-> NoBody, before |-> {}]

Done(op, token, err, dup, out) ==
  Ended(op, token, err, dup, out, FALSE, NoAuth, NoHeaders)
NoLast == Done("", NoToken, "", FALSE, NoCall)

\* A response is written out before the server takes up the next event.
Quiet == last = NoLast

\* ------------------------------------------------------- counter store
\* One client address, and the requests of it that can be in the limiter
\* at the same time.
Keys == {"rl:auth:login:ip1"}
Reqs == {"a", "b"}

\* A key that does not exist; expireAt = NULL is a key without time-to-live.
\* born, allowed and rejected are history only: the second the key was
\* created in, and how many of the requests it counted were let through
\* and turned away.
NoKey == [count |-> 0, expireAt |-> NULL, born |-> NULL, allowed |-> 0, rejected |-> 0]
IdleLim == [pc |-> "idle", key |-> "", current |-> 0, born |-> NULL]

\* -------------------------------------------------------- response cache
\* req.auth?.userId ?? "guest"
Guest == 0
\* cache("workspaces", 60)
CacheTtl == 60

\* req.originalUrl under the workspaces prefix: 0 stands for the list
\* /api/workspaces, w > 0 for /api/workspaces/<w>.
Urls == 0..MaxWorkspaces
CacheKeys == [userId : {Guest} \cup Accounts, url : Urls]

\* A key that is not in the cache.  before is history only: the users whose
\* successful mutation the entry has outlived.
NoEntry == [body |-> NoBody, expireAt |-> NULL, before |-> {}]

\* ---------------------------------------------------------------- ledger
\* A row of user_refresh_tokens.  from is history only: the hash that was
\* presented to the rotation that inserted the row (NoHash for a login).
\* loggedOut is history as well: a logout presenting the row's credential
\* has completed.
NoHash == [sha256 |-> NoToken]

Row(id, userId, hash, expiresAt, tx, from) ==
  [id |-> id, user_id |-> userId, token_hash |-> hash, expires_at |-> expiresAt,
   revoked_at |-> NULL, tx |-> tx, from |-> from, loggedOut |-> FALSE]

\* AUTO_INCREMENT; ids serve only as row identity.
RECURSIVE MaxId(_)
MaxId(L) ==
  IF L = {} THEN 0
  ELSE LET r == CHOOSE x \in L : TRUE
           m == MaxId(L \ {r})
       IN IF r.id > m THEN r.id ELSE m
nextId(L) == MaxId(L) + 1

\* UserRefreshToken.findOne({ where: { token_hash } }): committed rows only.
findByHash(L, hash) == {r \in L : r.token_hash = hash /\ r.tx = NoTx}

\* Row and user locks taken with LOCK.UPDATE, held until commit / rollback.
InTx(p) == rq[p].pc \in {"row", "user", "revoked", "inserted"}
HoldsRow(p, id) == InTx(p) /\ rq[p].row = id
HoldsUser(p, u) == rq[p].pc \in {"user", "revoked", "inserted"} /\ rq[p].userId = u
RowFree(p, id) == \A q \in Procs \ {p} : ~HoldsRow(q, id)

\* A lock on the whole users table instead of one row.
UserFree_tableLock(p, u) ==
  \A q \in Procs \ {p} : rq[q].pc \notin {"user", "revoked", "inserted"}

UserFree(p, u) == \A q \in Procs \ {p} : ~HoldsUser(q, u)
RowFreeAll(id) == \A q \in Procs : ~HoldsRow(q, id)
UserFreeAll(u) == \A q \in Procs : ~HoldsUser(q, u)

\* An insert waits while another transaction holds an uncommitted row
\* with the same unique key.
NoPendingInsert(L, hash) == \A r \in L : r.token_hash = hash => r.tx = NoTx

\* row.update({ revoked_at }, { transaction: t })
rowUpdate(L, id, at) ==
  {IF r.id = id THEN [r EXCEPT !.revoked_at = at] ELSE r : r \in L}

\* A rollback that removes the insert but keeps the update.
Rollback_keepsUpdate(L, q) == {x \in L : x.tx = NoTx \/ x.id # q.newRow}

\* Rollback of the managed transaction of request q: its insert is
\* removed and its update of the locked row is undone.
Rollback(L, q) ==
  {IF q.updated /\ r.id = q.row THEN [r EXCEPT !.revoked_at = q.undo] ELSE r :
     r \in {x \in L : x.tx = NoTx \/ x.id # q.newRow}}

\* Commit: the inserted row becomes visible to everyone.
Commit(L, q) == {IF r.id = q.newRow THEN [r EXCEPT !.tx = NoTx] ELSE r : r \in L}

\* A table without the unique index.
isDuplicate_noIndex(L, hash) == FALSE

\* UserRefreshToken.create: the unique index on token_hash rejects a hash
\* that some row already carries.
isDuplicate(L, hash) == \E r \in L : r.token_hash = hash

\* UserRefreshToken.upsert (INSERT ... ON DUPLICATE KEY UPDATE): a row with
\* the same token_hash takes the new user_id, expires_at and revoked_at.
upsert(L, userId, hash, expiresAt) ==
  IF isDuplicate(L, hash)
    THEN {IF r.token_hash = hash
            THEN [r EXCEPT !.user_id = userId, !.expires_at = expiresAt,
                           !.revoked_at = NULL]
            ELSE r : r \in L}
    ELSE L \cup {Row(nextId(L), userId, hash, expiresAt, NoTx, NoHash)}

\* An update that leaves out the revoked_at: null condition.
revokeWhereActive_any(L, hash, at) ==
  {IF r.token_hash = hash THEN [r EXCEPT !.revoked_at = at] ELSE r : r \in L}

\* UserRefreshToken.update({ revoked_at }, { where: { token_hash, revoked_at: null } })
revokeWhereActive(L, hash, at) ==
  {IF r.token_hash = hash /\ r.revoked_at = NULL
     THEN [r EXCEPT !.revoked_at = at] ELSE r : r \in L}

\* The ledger as a reader outside every transaction sees it.
Durable ==
  {IF \E p \in Procs : rq[p].updated /\ HoldsRow(p, r.id)
     THEN [r EXCEPT !.revoked_at =
                      rq[CHOOSE p \in Procs : rq[p].updated /\ HoldsRow(p, r.id)].undo]
     ELSE r : r \in {x \in ledger : x.tx = NoTx}}

\* ------------------------------------------------------------ start-up
Init ==
  /\ env \in {envOf(pe) : pe \in Deployments}
  /\ now = 0
  /\ users = [u \in Accounts |-> [role |-> "USER", status |-> "ACTIVE"]]
  /\ ledger = {}
  /\ cookies = {}
  /\ rq = [p \in Procs |-> IdleRq]
  /\ last = NoLast
  /\ workspaces = {}
  /\ members = {}
  /\ store = [k \in Keys |-> NoKey]
  /\ lim = [r \in Reqs |-> IdleLim]
  /\ cached = [k \in CacheKeys |-> NoEntry]

Cookie(name, value) == [name |-> name, value |-> value]
Presentable == {NoToken, Garbage} \cup {c.value : c \in cookies}

\* ------------------------------------------------------- POST /login
\* routes/auth.js login: the whole handler; the insert is auto-committed.
Login(u, pwOk) ==
  LET access == signAccessToken(env, [sub |-> String(u), role |-> users[u].role], now)
      refresh == signRefreshToken(env, [sub |-> String(u), role |-> users[u].role], now)
      h == hashToken(refresh)
      reject(c) == /\ last' = Done("login", NoToken, "", FALSE,
                                   Caught(c, "INTERNAL_SERVER_ERROR", "failed to login"))
                   /\ UNCHANGED <<ledger, cookies>>
  IN /\ Quiet
     /\ IF u \notin Accounts THEN reject(Call("UNAUTHORIZED", "invalid credentials"))
        ELSE IF users[u].status # "ACTIVE" THEN reject(Call("FORBIDDEN", "user not active"))
        ELSE IF ~pwOk THEN reject(Call("UNAUTHORIZED", "invalid credentials"))
        ELSE /\ NoPendingInsert(ledger, h)
             /\ IF isDuplicate(ledger, h)
                  THEN /\ last' = Done("login", refresh, "SequelizeUniqueConstraintError",
                                       TRUE, Call("INTERNAL_SERVER_ERROR", "failed to login"))
                       /\ UNCHANGED <<ledger, cookies>>
                  ELSE /\ ledger' = ledger \cup
                            {Row(nextId(ledger), u, h, now + refreshTtlSeconds(env),
                                 NoTx, NoHash)}
                       /\ cookies' = cookies \cup {Cookie("access_token", access),
                                                   Cookie("refresh_token", refresh)}
                       /\ last' = Done("login", refresh, "", FALSE, OkCall("login ok"))
     /\ UNCHANGED <<apart, env, now, users, rq>>

\* ------------------------------------------- social login (issue + persist)
\* routes/authSocial.js POST /social/firebase, after the provider has
\* identified user u: findOrCreate reads the user without a lock, then the
\* pair is signed and the refresh hash upserted (auto-committed).
SocialLogin(u) ==
  LET access == signAccessToken(env, [sub |-> String(u), role |-> users[u].role], now)
      refresh == signRefreshToken(env, [sub |-> String(u), role |-> users[u].role], now)
      h == hashToken(refresh)
  IN /\ Quiet
     /\ NoPendingInsert(ledger, h)
     /\ \A r \in ledger : r.token_hash = h => RowFreeAll(r.id)
     /\ ledger' = upsert(ledger, u, h, now + refreshTtlSeconds(env))
     /\ cookies' = cookies \cup {Cookie("access_token", access),
                                 Cookie("refresh_token", refresh)}
     /\ last' = Done("social", refresh, "", isDuplicate(ledger, h),
                     OkCall("social login success"))
     /\ UNCHANGED <<apart, env, now, users, rq>>

\* ------------------------------------------------------- POST /logout
\* History: the rows whose credential a completed logout presented.
noteLogout(L, hash) ==
  {IF r.token_hash = hash THEN [r EXCEPT !.loggedOut = TRUE] ELSE r : r \in L}

\* noted says whether the history column is kept; the handler is the same.
Logout(token, noted) ==
  LET h == hashToken(token)
  IN /\ Quiet
     /\ token \in Presentable \ {Garbage}
     /\ NoPendingInsert(ledger, h)
     /\ \A r \in ledger : r.token_hash = h => RowFreeAll(r.id)
     /\ ledger' = IF token = NoToken THEN ledger
                  ELSE IF noted THEN noteLogout(revokeWhereActive(ledger, h, now), h)
                  ELSE revokeWhereActive(ledger, h, now)
     /\ last' = Done("logout", token, "", FALSE, OkCall("logout ok"))
     /\ UNCHANGED <<apart, env, now, users, cookies, rq>>

\* ------------------------------------------- PATCH / DELETE /users/:id
PatchUser(u, role, status) ==
  /\ Quiet
  /\ UserFreeAll(u)
  /\ users' = [users EXCEPT ![u] = [role |-> role, status |-> status]]
  /\ users' # users
  /\ UNCHANGED <<apart, env, now, ledger, cookies, rq, last>>

DeleteUser(u) ==
  /\ Quiet
  /\ UserFreeAll(u)
  /\ users[u].status # "DELETED"
  /\ users' = [users EXCEPT ![u].status = "DELETED"]
  /\ UNCHANGED <<apart, env, now, ledger, cookies, rq, last>>

\* ------------------------------------------------------------- the clock
\* The instants the clock visits: a second, the next second, and then the
\* same pair again once more than the seven day fallback has gone by.
Instant(i) == (i \div 2) * (Week + 1) + (i % 2)

\* Requests are short against the clock: it moves between transactions.
Tick ==
  /\ Quiet
  /\ \A p \in Procs : rq[p].pc = "idle"
  /\ \E i \in 0..(MaxInstant - 1) : now = Instant(i) /\ now' = Instant(i + 1)
  /\ UNCHANGED <<apart, env, users, ledger, cookies, rq, last>>

\* ------------------------------------------------------- POST /refresh
\* An error thrown inside the transaction callback.
Err(message, code) == [message |-> message, _code |-> code]

\* A catch block that passes the thrown error's own message on.
refreshCatch_leaky(e) ==
  Call(IF e._code = "" THEN "INTERNAL_SERVER_ERROR" ELSE e._code, e.message)

\* routes/auth.js refresh, the catch block after the transaction
refreshCatch(e) ==
  LET code == IF e._code = "" THEN "INTERNAL_SERVER_ERROR" ELSE e._code
      msg == IF code = "TOKEN_EXPIRED" THEN "refresh token expired"
             ELSE IF code = "UNAUTHORIZED" THEN "invalid refresh token"
             ELSE "failed to refresh token"
  IN Call(code, msg)

\* The request ends: its connection is free again and its outcome is the
\* latest one.
Finish(p, token, err, call) ==
  /\ rq' = [rq EXCEPT ![p] = IdleRq]
  /\ last' = Done("refresh", token, err, FALSE, call)
Fail(p, e) == Finish(p, rq[p].token, e.message, refreshCatch(e))

\* Cookie check, verifyRefreshToken, parseInt(payload.sub); a verified
\* request goes on to open its transaction.
RefreshStart(p, token) ==
  LET v == verifyRefreshToken(env, token, now)
      userId == parseInt(token.sub)
  IN /\ Quiet
     /\ rq[p].pc = "idle"
     /\ p = "p1" \/ rq["p1"].pc # "idle"
     /\ token \in Presentable
     /\ IF token = NoToken
          THEN Finish(p, token, "", Call("UNAUTHORIZED", "missing refresh token"))
        ELSE IF ~v.ok
          THEN Finish(p, token, v.name,
                 IF v.name = "TokenExpiredError"
                   THEN Call("TOKEN_EXPIRED", "refresh token expired")
                   ELSE Call("UNAUTHORIZED", "invalid refresh token"))
        ELSE IF userId = 0
          THEN Finish(p, token, "", Call("UNAUTHORIZED", "invalid refresh token"))
        ELSE /\ rq' = [rq EXCEPT ![p] = [IdleRq EXCEPT !.pc = "tx", !.token = token,
                                                       !.userId = userId]]
             /\ UNCHANGED last
     /\ UNCHANGED <<apart, env, now, users, ledger, cookies>>

\* findOne({ where: { token_hash }, lock: UPDATE }) and the ledger checks.
RefreshFindRow(p) ==
  LET rows == findByHash(ledger, hashToken(rq[p].token))
  IN /\ Quiet
     /\ rq[p].pc = "tx"
     /\ \A r \in rows : RowFree(p, r.id)
     /\ IF rows = {} THEN Fail(p, Err("not found", "UNAUTHORIZED"))
        ELSE LET row == CHOOSE r \in rows : TRUE
             IN IF row.revoked_at # NULL THEN Fail(p, Err("revoked", "UNAUTHORIZED"))
                ELSE IF row.expires_at < now THEN Fail(p, Err("expired", "TOKEN_EXPIRED"))
                ELSE /\ rq' = [rq EXCEPT ![p].pc = "row", ![p].row = row.id]
                     /\ UNCHANGED last
     /\ UNCHANGED <<apart, env, now, users, ledger, cookies>>

\* User.findOne({ where: { id }, lock: UPDATE }) and the status check.
RefreshFindUser(p, dbFails) ==
  LET userId == rq[p].userId
  IN /\ Quiet
     /\ rq[p].pc = "row"
     /\ UserFree(p, userId)
     /\ IF dbFails THEN Fail(p, Err("db error: findUser", ""))
        ELSE IF userId \notin Accounts THEN Fail(p, Err("user not found", "UNAUTHORIZED"))
        ELSE IF users[userId].status # "ACTIVE"
          THEN Fail(p, Err("user not active", "FORBIDDEN"))
        ELSE /\ rq' = [rq EXCEPT ![p].pc = "user", ![p].role = users[userId].role]
             /\ UNCHANGED last
     /\ UNCHANGED <<apart, env, now, users, ledger, cookies>>

\* row.update({ revoked_at: new Date() }, { transaction: t })
RefreshRevoke(p, dbFails) ==
  LET old == (CHOOSE r \in ledger : r.id = rq[p].row).revoked_at
  IN /\ Quiet
     /\ rq[p].pc = "user"
     /\ IF dbFails
          THEN /\ Fail(p, Err("db error: update", ""))
               /\ ledger' = Rollback(ledger, rq[p])
          ELSE /\ ledger' = rowUpdate(ledger, rq[p].row, now)
               /\ rq' = [rq EXCEPT ![p].pc = "revoked", ![p].updated = TRUE,
                                   ![p].undo = old]
               /\ UNCHANGED last
     /\ UNCHANGED <<apart, env, now, users, cookies>>

\* signAccessToken, signRefreshToken and UserRefreshToken.create in t.
RefreshIssue(p, dbFails) ==
  LET payload == [sub |-> String(rq[p].userId), role |-> rq[p].role]
      newAccess == signAccessToken(env, payload, now)
      newRefresh == signRefreshToken(env, payload, now)
      h == hashToken(newRefresh)
  IN /\ Quiet
     /\ rq[p].pc = "revoked"
     /\ NoPendingInsert(ledger, h)
     /\ IF dbFails \/ isDuplicate(ledger, h)
          THEN /\ Fail(p, Err(IF dbFails THEN "db error: create"
                              ELSE "SequelizeUniqueConstraintError", ""))
               /\ ledger' = Rollback(ledger, rq[p])
          ELSE /\ ledger' = ledger \cup
                    {Row(nextId(ledger), rq[p].userId, h, now + refreshTtlSeconds(env),
                         p, hashToken(rq[p].token))}
               /\ rq' = [rq EXCEPT ![p].pc = "inserted", ![p].newRow = nextId(ledger),
                                   ![p].newAccess = newAccess,
                                   ![p].newRefresh = newRefresh]
               /\ UNCHANGED last
     /\ UNCHANGED <<apart, env, now, users, cookies>>

\* Commit of the managed transaction, then the cookies and sendOk.
RefreshCommit(p, dbFails) ==
  /\ Quiet
  /\ rq[p].pc = "inserted"
  /\ IF dbFails
       THEN /\ Fail(p, Err("db error: commit", ""))
            /\ ledger' = Rollback(ledger, rq[p])
            /\ UNCHANGED cookies
       ELSE /\ ledger' = Commit(ledger, rq[p])
            /\ cookies' = cookies \cup {Cookie("access_token", rq[p].newAccess),
                                        Cookie("refresh_token", rq[p].newRefresh)}
            /\ Finish(p, rq[p].token, "", OkCall("refreshed"))
  /\ UNCHANGED <<apart, env, now, users>>

\* The response leaves the server.
Respond ==
  /\ ~Quiet
  /\ last' = NoLast
  /\ UNCHANGED <<apart, env, now, users, ledger, cookies, rq>>

\* ------------------------------------------------- Express error path
\* middlewares/errorHandler.js: each branch calls sendError(res, <status>,
\* <code>, <message>), so the status number lands in the code parameter.
errorHandler(err) ==
  IF err.code = "SequelizeValidationError" THEN sendError("400", "VALIDATION_FAILED")
  ELSE IF err.code = "SequelizeUniqueConstraintError"
    THEN sendError("409", "DUPLICATE_RESOURCE")
  ELSE IF err.code = "SequelizeForeignKeyConstraintError"
    THEN sendError("409", "STATE_CONFLICT")
  ELSE sendError("500", "UNKNOWN_ERROR")

\* Express's last resort when the error handler itself throws: a plain 500.
finalhandler ==
  [sent |-> TRUE, success |-> FALSE, status |-> 500, code |-> "",
   message |-> "Internal Server Error"]

\* next(err), or a throw out of a synchronous middleware.
handled(err) == LET r == errorHandler(err) IN IF r.sent THEN r ELSE finalhandler

\* A rejected promise of an async middleware: Express 4 leaves the request
\* unanswered, Express 5 passes the error on; the repository pins neither.
rejected(err) == {NoResponse, handled(err)}

\* What a middleware decided: next() with req.auth, or a response.
Pass(auth) == [next |-> TRUE, auth |-> auth, out |-> NoCall]
Stop(call, res) == [next |-> FALSE, auth |-> NoAuth, out |-> [call EXCEPT !.res = res]]

\* -------------------------------------------------------- requireAuth
\* middlewares/requireAuth.js requireAuth: synchronous; its sendError calls
\* are sendError(res, 401, <code>, <message>).
requireAuth(e, token, t) ==
  LET v == verifyAccessToken(e, token, t)
      deny(code) == LET c == Call("401", code)
                    IN Stop(c, IF c.res.sent THEN c.res ELSE handled(c.res))
  IN IF token = NoToken THEN deny("UNAUTHORIZED")
     ELSE IF v.ok THEN Pass([userId |-> parseInt(token.sub), role |-> token.role])
     ELSE IF v.name = "TokenExpiredError" THEN deny("TOKEN_EXPIRED")
     ELSE deny("UNAUTHORIZED")

\* middlewares/requireSession.js requireSession: async, no try around its
\* sendError calls; every verification failure is "invalid access token".
\* The result is the set of outcomes the build can produce.
requireSession(e, token, t, hasSession) ==
  LET v == verifyAccessToken(e, token, t)
      deny(message) == LET c == Call("UNAUTHORIZED", message)
                       IN IF c.res.sent THEN {Stop(c, c.res)}
                          ELSE {Stop(c, r) : r \in rejected(c.res)}
  IN IF token = NoToken THEN deny("missing access token")
     ELSE IF ~v.ok THEN deny("invalid access token")
     ELSE IF ~hasSession THEN deny("session expired")
     ELSE {Pass([userId |-> parseInt(token.sub), role |-> token.role])}

\* A request to a route behind requireAuth alone (GET /api/users/me).
AuthRequest(token) ==
  LET g == requireAuth(env, token, now)
  IN /\ Quiet
     /\ token \in Presentable
     /\ last' = Ended("requireAuth", token, "", FALSE, g.out, g.next, g.auth, NoHeaders)
     /\ UNCHANGED <<apart, env, now, users, ledger, cookies, rq>>

\* A request to a route behind requireSession; hasSession is what
\* redis.get("session:<id>") answers.
SessionRequest(token, hasSession) ==
  /\ Quiet
  /\ token \in Presentable
  /\ \E g \in requireSession(env, token, now, hasSession) :
       last' = Ended("requireSession", token, "", FALSE, g.out, g.next, g.auth, NoHeaders)
  /\ UNCHANGED <<apart, env, now, users, ledger, cookies, rq>>

\* ------------------------------------------------ workspace membership
Owners == Accounts
WorkspaceIds == 0..(MaxWorkspaces + 1)

findByPk(id) == {w \in workspaces : w.id = id}

\* routes/workspaces.js POST /: the workspace and its owner's membership,
\* in one transaction.
CreateWorkspace(o) ==
  LET id == Cardinality(workspaces) + 1
  IN /\ Quiet
     /\ id <= MaxWorkspaces
     /\ workspaces' = workspaces \cup
          {[id |-> id, owner_id |-> o, name |-> 0, deleted_at |-> NULL]}
     /\ members' = members \cup {<<id, o>>}
     /\ UNCHANGED <<env, now, users, ledger, cookies, rq, last, store, lim, cached>>

\* routes/workspaces.js POST /:workspaceId/members
AddMember(w, u) ==
  /\ Quiet
  /\ \E ws \in findByPk(w) : u # ws.owner_id
  /\ <<w, u>> \notin members
  /\ members' = members \cup {<<w, u>>}
  /\ UNCHANGED <<env, now, users, ledger, cookies, rq, last, store, lim, cached, workspaces>>

\* routes/workspaces.js DELETE /:workspaceId/members/:userId
RemoveMember(w, u) ==
  /\ Quiet
  /\ \E ws \in findByPk(w) : u # ws.owner_id
  /\ <<w, u>> \in members
  /\ members' = members \ {<<w, u>>}
  /\ UNCHANGED <<env, now, users, ledger, cookies, rq, last, store, lim, cached, workspaces>>

\* A gate that knows no administrator.
requireWorkspaceMember_noBypass(allowAdmin, auth, workspaceId) ==
  IF auth.userId # 0 /\ workspaceId > 0 /\ findByPk(workspaceId) # {}
       /\ <<workspaceId, auth.userId>> \in members
    THEN Pass(auth)
    ELSE Stop(Call("FORBIDDEN", "not a workspace member"), finalhandler)

\* middlewares/requireWorkspaceMember.js requireWorkspaceMember: async,
\* its sendError calls sit inside the try, so a throw ends in next(err).
requireWorkspaceMember(allowAdmin, auth, workspaceId) ==
  LET deny(code, message) == LET c == Call(code, message)
                             IN Stop(c, IF c.res.sent THEN c.res ELSE handled(c.res))
  IN IF auth.userId = 0 THEN deny("UNAUTHORIZED", "missing auth")
     ELSE IF workspaceId <= 0 THEN deny("BAD_REQUEST", "invalid workspaceId")
     ELSE IF findByPk(workspaceId) = {}
       THEN deny("RESOURCE_NOT_FOUND", "workspace not found")
     ELSE IF allowAdmin /\ auth.role = "ADMIN" THEN Pass(auth)
     ELSE IF <<workspaceId, auth.userId>> \notin members
       THEN deny("FORBIDDEN", "not a workspace member")
     ELSE Pass(auth)

\* app.use("/api/workspaces/:workspaceId", requireAuth,
\* requireWorkspaceMember()): a request to a workspace-scoped route.  err
\* names the middleware that ended the request.
WorkspaceRequest(token, w, allowAdmin) ==
  LET a == requireAuth(env, token, now)
      g == IF a.next THEN requireWorkspaceMember(allowAdmin, a.auth, w) ELSE a
  IN /\ Quiet
     /\ token \in Presentable
     /\ last' = [workspaceId |-> w, allowAdmin |-> allowAdmin] @@
                Ended("workspace", token,
                      IF ~a.next THEN "requireAuth"
                      ELSE IF ~g.next THEN "requireWorkspaceMember" ELSE "",
                      FALSE, g.out, g.next, a.auth, NoHeaders)
     /\ UNCHANGED <<apart, env, now, users, ledger, cookies, rq>>

\* ------------------------------------------------------- rate limiter
\* The key as the store holds it now: a key past its expiry is gone.
live(k) ==
  IF store[k].expireAt # NULL /\ now >= store[k].expireAt THEN NoKey ELSE store[k]

\* Math.max(0, max - current)
remaining_unclamped(max, current) == max - current

remaining(max, current) == IF max - current > 0 THEN max - current ELSE 0

\* res.setHeader("RateLimit-Limit" / "RateLimit-Remaining" / "RateLimit-Policy")
rateLimitHeaders(max, windowSec, current) ==
  [set |-> TRUE, limit |-> max, remaining |-> remaining(max, current),
   window |-> windowSec]

\* The catch of rateLimitMiddleware: next(err).  The headers are those
\* already set on res; Express's 500 leaves them in place.
LimError(r, message, headers) ==
  /\ lim' = [lim EXCEPT ![r] = IdleLim]
  /\ last' = Ended("rateLimit", NoToken, message, FALSE,
                   [NoCall EXCEPT !.res = handled(Thrown("Error", message))],
                   FALSE, NoAuth, headers)

\* A middleware that sets the time-to-live on every request.
isFirst_always(current) == TRUE

\* if (current === 1)
isFirst(current) == current = 1

\* const current = await redis.incr(key)
RlIncr(r, k, fails) ==
  /\ Quiet
  /\ lim[r].pc = "idle"
  /\ IF fails
       THEN LimError(r, "redis error: incr", NoHeaders) /\ UNCHANGED store
       ELSE /\ live(k).count < MaxCount
            /\ store' = [store EXCEPT ![k] =
                           [live(k) EXCEPT !.count = @ + 1,
                                           !.born = IF live(k).count = 0 THEN now ELSE @]]
            /\ lim' = [lim EXCEPT ![r] = [pc |-> "incr", key |-> k,
                                          current |-> live(k).count + 1,
                                          born |-> store'[k].born]]
            /\ UNCHANGED last
  /\ UNCHANGED <<env, now, users, ledger, cookies, rq, workspaces, members, cached>>

\* if (current === 1) await redis.expire(key, windowSec); EXPIRE on a key
\* that is gone does nothing.
RlExpire(r, fails) ==
  LET k == lim[r].key
  IN /\ Quiet
     /\ lim[r].pc = "incr"
     /\ isFirst(lim[r].current)
     /\ IF fails
          THEN LimError(r, "redis error: expire", NoHeaders) /\ UNCHANGED store
          ELSE /\ store' = IF live(k).count = 0 THEN store
                           ELSE [store EXCEPT ![k] =
                                   [live(k) EXCEPT !.expireAt = now + LoginWindowSec]]
               /\ lim' = [lim EXCEPT ![r].pc = "ttl"]
               /\ UNCHANGED last
     /\ UNCHANGED <<env, now, users, ledger, cookies, rq, workspaces, members, cached>>

\* A limiter that turns the max-th request away already.
overLimit_inclusive(max, current) == current >= max

\* if (current > max)
overLimit(max, current) == current > max

\* History: the verdict on a request is noted on the key that counted it.
noteVerdict(r, over) ==
  LET k == lim[r].key
  IN IF live(k).count > 0 /\ live(k).born = lim[r].born
       THEN [store EXCEPT ![k] = IF over THEN [live(k) EXCEPT !.rejected = @ + 1]
                                 ELSE [live(k) EXCEPT !.allowed = @ + 1]]
       ELSE store

\* The headers, then the verdict: sendError(res, "TOO_MANY_REQUESTS", ...)
\* inside the try, or next().
RlDecide(r) ==
  LET current == lim[r].current
      headers == rateLimitHeaders(LoginMax, LoginWindowSec, current)
      c == Call("TOO_MANY_REQUESTS", "rate limit exceeded")
  IN /\ Quiet
     /\ lim[r].pc = "ttl" \/ (lim[r].pc = "incr" /\ ~isFirst(current))
     /\ lim' = [lim EXCEPT ![r] = IdleLim]
     /\ store' = noteVerdict(r, overLimit(LoginMax, current))
     /\ last' = IF overLimit(LoginMax, current)
                  THEN Ended("rateLimit", NoToken, "", FALSE,
                             [c EXCEPT !.res = IF c.res.sent THEN c.res ELSE handled(c.res)],
                             FALSE, NoAuth, headers)
                  ELSE Ended("rateLimit", NoToken, "", FALSE, NoCall, TRUE, NoAuth, headers)
     /\ UNCHANGED <<env, now, users, ledger, cookies, rq, workspaces, members, cached>>

\* ----------------------------------------------------- cache middleware
\* middlewares/cache.js: `${prefix}:${userId}:${req.originalUrl}`, with the
\* req.auth the request carries when the middleware runs.
cacheKey(auth, url) == [userId |-> auth.userId, url |-> url]

\* redis.get(key): an entry past its EX is gone.
cacheGet(k) ==
  IF cached[k].expireAt # NULL /\ now < cached[k].expireAt THEN cached[k] ELSE NoEntry

\* redis.set(key, JSON.stringify(body), "EX", ttl) in the wrapped res.json
cacheSet(C, k, body) ==
  [C EXCEPT ![k] = [body |-> body, expireAt |-> now + CacheTtl, before |-> {}]]

\* clearCache: redis.keys(`${prefix}:${userId}:*`) and redis.del(keys)
clearKeys(C, userId) ==
  [k \in CacheKeys |-> IF k.userId = userId THEN NoEntry ELSE C[k]]

\* History: the entries left have outlived a successful mutation by userId.
noteMutation(C, userId) ==
  [k \in CacheKeys |->
     IF C[k] = NoEntry THEN NoEntry ELSE [C[k] EXCEPT !.before = @ \cup {userId}]]

\* What the handlers put into their bodies.
listBody(userId) ==
  [by |-> userId,
   content |-> {w \in workspaces : w.deleted_at = NULL /\ <<w.id, userId>> \in members}]
oneBody(userId, w) == [by |-> userId, content |-> findByPk(w)]

\* utils/http.js sendNoContent: res.status(204).send(), which does not go
\* through res.json.
sendNoContent ==
  [sent |-> TRUE, success |-> TRUE, status |-> 204, code |-> "OK", message |-> ""]

\* routes/workspaces.js imports sendOk and sendError from utils/http.js,
\* and nothing else.
importsSendNoContent == FALSE

\* middlewares/requireWorkspaceMember.js requireWorkspaceOwner: synchronous.
requireWorkspaceOwner(allowAdmin, auth, w) ==
  LET ws == CHOOSE x \in findByPk(w) : TRUE
      c == Call("FORBIDDEN", "workspace owner only")
  IN IF allowAdmin /\ auth.role = "ADMIN" THEN Pass(auth)
     ELSE IF ws.owner_id # auth.userId
       THEN Stop(c, IF c.res.sent THEN c.res ELSE handled(c.res))
     ELSE Pass(auth)

\* A completed request to a cached route.
Served(op, token, err, g, w, hit, body, before) ==
  [workspaceId |-> w, hit |-> hit, body |-> body, before |-> before] @@
  Ended(op, token, err, FALSE, g.out, g.next, g.auth, NoHeaders)

Answered(auth) == [next |-> TRUE, auth |-> auth, out |-> OkCall("")]

\* GET /api/workspaces: cache("workspaces", 60) is mounted in front of the
\* router, whose route carries requireAuth; req.auth is not set yet when
\* the key is made.
GetWorkspaces(token) ==
  LET k == cacheKey(NoAuth, 0)
      e == cacheGet(k)
      a == requireAuth(env, token, now)
      body == listBody(a.auth.userId)
  IN /\ Quiet
     /\ token \in Presentable
     /\ IF e # NoEntry
          THEN /\ last' = Served("GET", token, "", Answered(NoAuth), 0, TRUE, e.body, e.before)
               /\ UNCHANGED cached
        ELSE IF ~a.next
          THEN /\ last' = Served("GET", token, "requireAuth", a, 0, FALSE, NoBody, {})
               /\ UNCHANGED cached
        ELSE /\ last' = Served("GET", token, "", Answered(a.auth), 0, FALSE, body, {})
             /\ cached' = cacheSet(cached, k, body)
     /\ UNCHANGED <<env, now, users, ledger, cookies, rq, workspaces, members, store, lim>>

\* The gates of app.use("/api/workspaces/:workspaceId", requireAuth,
\* requireWorkspaceMember()), which run before the cache mounts.
scopeGates(token, w) ==
  LET a == requireAuth(env, token, now)
  IN IF a.next THEN requireWorkspaceMember(TRUE, a.auth, w) ELSE a

\* GET /api/workspaces/:workspaceId
GetWorkspace(token, w) ==
  LET g == scopeGates(token, w)
      k == cacheKey(g.auth, w)
      e == cacheGet(k)
      body == oneBody(g.auth.userId, w)
  IN /\ Quiet
     /\ token \in Presentable
     /\ IF ~g.next
          THEN /\ last' = Served("GET", token, "gate", g, w, FALSE, NoBody, {})
               /\ UNCHANGED cached
        ELSE IF e # NoEntry
          THEN /\ last' = Served("GET", token, "", Answered(g.auth), w, TRUE, e.body, e.before)
               /\ UNCHANGED cached
        ELSE /\ last' = Served("GET", token, "", Answered(g.auth), w, FALSE, body, {})
             /\ cached' = cacheSet(cached, k, body)
     /\ UNCHANGED <<env, now, users, ledger, cookies, rq, workspaces, members, store, lim>>

\* PATCH /api/workspaces/:workspaceId: req.workspace.save(), then sendOk;
\* the res.json that clearCache wrapped sends the body and deletes the
\* caller's keys.
PatchWorkspace(token, w, name) ==
  LET g == scopeGates(token, w)
      o == IF g.next THEN requireWorkspaceOwner(TRUE, g.auth, w) ELSE g
  IN /\ Quiet
     /\ token \in Presentable
     /\ IF ~o.next
          THEN /\ last' = Served("PATCH", token, "gate", o, w, FALSE, NoBody, {})
               /\ UNCHANGED <<workspaces, cached>>
          ELSE /\ workspaces' = {IF x.id = w THEN [x EXCEPT !.name = name] ELSE x :
                                   x \in workspaces}
               /\ last' = Served("PATCH", token, "", Answered(g.auth), w, FALSE, NoBody, {})
               /\ cached' = noteMutation(clearKeys(cached, g.auth.userId), g.auth.userId)
     /\ UNCHANGED <<env, now, users, ledger, cookies, rq, members, store, lim>>

\* DELETE /api/workspaces/:workspaceId: req.workspace.save(), then
\* sendNoContent(res), a name the module does not import: the async handler
\* rejects after the row is saved.  res.json is not called either way.
DeleteWorkspace(token, w) ==
  LET g == scopeGates(token, w)
      o == IF g.next THEN requireWorkspaceOwner(TRUE, g.auth, w) ELSE g
      outcomes == IF importsSendNoContent THEN {sendNoContent}
                  ELSE rejected(Thrown("ReferenceError", "sendNoContent is not defined"))
  IN /\ Quiet
     /\ token \in Presentable
     /\ IF ~o.next
          THEN /\ last' = Served("DELETE", token, "gate", o, w, FALSE, NoBody, {})
               /\ UNCHANGED workspaces
          ELSE /\ workspaces' = {IF x.id = w THEN [x EXCEPT !.deleted_at = now] ELSE x :
                                   x \in workspaces}
               /\ \E r \in outcomes :
                    last' = Served("DELETE", token, IF r.success THEN "" ELSE "ReferenceError",
                                   [next |-> TRUE, auth |-> g.auth,
                                    out |-> [NoCall EXCEPT !.res = r]],
                                   w, FALSE, NoBody, {})
     /\ UNCHANGED <<env, now, users, ledger, cookies, rq, members, store, lim, cached>>

\* ------------------------------------------------------------ the system
Next ==
  \/ Respond
  \/ \E u \in Users \cup {0}, pwOk \in BOOLEAN : Login(u, pwOk)
  \/ \E u \in Users : SocialLogin(u)
  \/ \E t \in Presentable : Logout(t, FALSE)
  \/ \E u \in Users, s \in Statuses : PatchUser(u, users[u].role, s)
  \/ \E u \in Users : DeleteUser(u)
  \/ Tick
  \/ \E p \in Procs, t \in Presentable : RefreshStart(p, t)
  \/ \E p \in Procs : RefreshFindRow(p)
  \/ \E p \in Procs, f \in BOOLEAN : RefreshFindUser(p, f)
  \/ \E p \in Procs, f \in BOOLEAN : RefreshRevoke(p, f)
  \/ \E p \in Procs, f \in BOOLEAN : RefreshIssue(p, f)
  \/ \E p \in Procs, f \in BOOLEAN : RefreshCommit(p, f)

Spec == Init /\ [][Next]_vars

\* The same handlers with an administrator who also changes roles, on one
\* connection and with a database that does not fail.
NextRoles ==
  \/ Respond
  \/ \E u \in Users : SocialLogin(u)
  \/ \E u \in Users, r \in Roles : PatchUser(u, r, users[u].status)
  \/ Tick /\ now' < Week
  \/ \E t \in Presentable : RefreshStart("p1", t)
  \/ RefreshFindRow("p1")
  \/ RefreshFindUser("p1", FALSE)
  \/ RefreshRevoke("p1", FALSE)
  \/ RefreshIssue("p1", FALSE)
  \/ RefreshCommit("p1", FALSE)

SpecRoles == Init /\ [][NextRoles]_vars

\* The same handlers on one connection and with a database that does not
\* fail, keeping the history of completed logouts.
NextLogout ==
  \/ Respond
  \/ \E u \in Users \cup {0}, pwOk \in BOOLEAN : Login(u, pwOk)
  \/ \E u \in Users : SocialLogin(u)
  \/ \E t \in Presentable : Logout(t, TRUE)
  \/ Tick
  \/ \E t \in Presentable : RefreshStart("p1", t)
  \/ RefreshFindRow("p1")
  \/ RefreshFindUser("p1", FALSE)
  \/ RefreshRevoke("p1", FALSE)
  \/ RefreshIssue("p1", FALSE)
  \/ RefreshCommit("p1", FALSE)

SpecLogout == Init /\ [][NextLogout]_vars

\* Two users rotating on two connections within the first week, with a
\* database that does not fail.
NextLocks ==
  \/ Respond
  \/ \E u \in Accounts : Login(u, TRUE)
  \/ Tick /\ now' < Week
  \/ \E p \in Procs, t \in Presentable : RefreshStart(p, t)
  \/ \E p \in Procs : RefreshFindRow(p)
  \/ \E p \in Procs : RefreshFindUser(p, FALSE)
  \/ \E p \in Procs : RefreshRevoke(p, FALSE)
  \/ \E p \in Procs : RefreshIssue(p, FALSE)
  \/ \E p \in Procs : RefreshCommit(p, FALSE)

SpecLocks == Init /\ [][NextLocks]_vars

\* The gates in front of the route handlers, with an administrator who
\* changes roles and statuses and an owner who manages the memberships.
\* The account logs in once under each role it is given.
NextGate ==
  \/ Respond
  \/ \E u \in Users : Login(u, TRUE) /\ \A c \in cookies : c.value.role # users[u].role
  \/ \E u \in Users, r \in Roles, st \in Statuses : PatchUser(u, r, st)
  \/ Tick
  \/ \E o \in Owners : CreateWorkspace(o)
  \/ \E w \in WorkspaceIds, u \in Users : AddMember(w, u)
  \/ \E w \in WorkspaceIds, u \in Users : RemoveMember(w, u)
  \/ \E t \in Presentable : AuthRequest(t)
  \/ \E t \in Presentable, h \in BOOLEAN : SessionRequest(t, h)
  \/ \E t \in Presentable, w \in WorkspaceIds, a \in BOOLEAN : WorkspaceRequest(t, w, a)

SpecGate == Init /\ [][NextGate]_vars

\* The cached workspace routes with two users, each signing in once.
NextCache ==
  \/ Respond
  \/ \E u \in Accounts :
       Login(u, TRUE) /\ \A c \in cookies : parseInt(c.value.sub) # u
  \/ Tick
  \/ \E o \in Owners : CreateWorkspace(o)
  \/ \E t \in Presentable : GetWorkspaces(t)
  \/ \E t \in Presentable, w \in Urls \ {0} : GetWorkspace(t, w)
  \/ \E t \in Presentable, w \in Urls \ {0} : PatchWorkspace(t, w, 1)
  \/ \E t \in Presentable, w \in Urls \ {0} : DeleteWorkspace(t, w)

SpecCache == Init /\ [][NextCache]_vars

\* The rate limiter in front of POST /login and the clock.
NextLimit ==
  \/ Respond
  \/ Tick
  \/ \E r \in Reqs, k \in Keys, f \in BOOLEAN : RlIncr(r, k, f)
  \/ \E r \in Reqs, f \in BOOLEAN : RlExpire(r, f)
  \/ \E r \in Reqs : RlDecide(r)

SpecLimit == Init /\ [][NextLimit]_vars

\* ================================================================ claims
\* A POST /refresh request completes in this step.
RefreshEnds == last = NoLast /\ last'.op = "refresh"

\* The committed record of a token, and the records a rotation of it made.
RecordOf(token) == {r \in Durable : r.token_hash = hashToken(token)}
SuccessorsOf(token) == {r \in Durable : r.from = hashToken(token)}

DbErrors ==
  {"db error: findUser", "db error: update", "db error: create", "db error: commit"}

\* Recorded, unrevoked, unexpired, owner active.
IsActive(token) ==
  /\ verifyRefreshToken(env, token, now).ok
  /\ parseInt(token.sub) \in Accounts
  /\ users[parseInt(token.sub)].status = "ACTIVE"
  /\ \E r \in RecordOf(token) : r.revoked_at = NULL /\ r.expires_at >= now

\* C1: no reachable state has two successor records created from the same
\* presented credential (at most one rotation of a credential ever commits).
C1_OneSuccessorPerCredential ==
  \A r1, r2 \in Durable : (r1.from # NoHash /\ r1.from = r2.from) => r1 = r2

\* C2: the first rotation attempt on an ACTIVE credential succeeds (the
\* database not failing), and every attempt made after a committed rotation
\* of that credential is answered with the invalid-credential code
\* UNAUTHORIZED, never with success, TOKEN_EXPIRED or a server error.  The
\* code compared is the one the handler hands to sendError.
C2_FirstSucceedsLaterInvalid ==
  [][RefreshEnds =>
       /\ (IsActive(last'.token) /\ SuccessorsOf(last'.token) = {}
             /\ last'.err \notin DbErrors) => last'.out.code = "OK"
       /\ SuccessorsOf(last'.token) # {} => last'.out.code = "UNAUTHORIZED"]_vars

\* C3: a rotation that fails after its ledger row was locked leaves nothing
\* behind: the presented record is still there with revoked_at null, no
\* successor of it exists, no row of the failed transaction remains, and
\* what every other reader sees of the ledger is what it saw before.
C3_FailedRotationRolledBack ==
  [][\A p \in Procs :
       (InTx(p) /\ rq'[p].pc = "idle" /\ last'.err # "") =>
          /\ \E r \in ledger' : /\ r.token_hash = hashToken(rq[p].token)
                                /\ r.revoked_at = NULL /\ r.tx = NoTx
          /\ \A r \in ledger' : r.from # hashToken(rq[p].token) /\ r.tx # p
          /\ Durable' = Durable
          /\ cookies' = cookies]_vars

\* C3 witness: the commit failed after the revocation and the insert, and
\* the presented record is unrevoked.
C3_Witness ==
  /\ last.op = "refresh" /\ last.err = "db error: commit"
  /\ \E r \in ledger : r.token_hash = hashToken(last.token) /\ r.revoked_at = NULL

\* C4: a rotation attempt on a record with expires_at in the past and
\* revoked_at null is answered with the TOKEN_EXPIRED error response, and
\* the record is left as it was.
C4_ExpiredRecordRejected ==
  [][(RefreshEnds /\ \E r \in RecordOf(last'.token) :
                        r.revoked_at = NULL /\ r.expires_at < now) =>
       /\ last'.out.res.sent
       /\ last'.out.res.code = "TOKEN_EXPIRED"
       /\ ledger' = ledger]_vars

\* C5: a correctly signed credential without a ledger record and one whose
\* record is already revoked are answered alike: the same code and message
\* go to sendError and the same thing comes of it.
C5_MissingLikeRevoked ==
  (last.op = "refresh" /\ last.err \in {"not found", "revoked"}) =>
     last.out = Call("UNAUTHORIZED", "invalid refresh token")

\* C5 witness: a verified credential was looked up and had no record.
C5_Witness == last.op = "refresh" /\ last.err = "not found"

\* C6: a rotation that reads a user row whose status is not ACTIVE is
\* answered with the FORBIDDEN error response, hands out no credentials and
\* leaves the presented record unrevoked.
C6_InactiveOwnerForbidden ==
  [][\A p \in Procs :
       (rq[p].pc = "row" /\ rq'[p].pc = "idle" /\ rq[p].userId \in Accounts
          /\ users[rq[p].userId].status # "ACTIVE" /\ last'.err \notin DbErrors) =>
          /\ last'.out.res.sent
          /\ last'.out.res.code = "FORBIDDEN"
          /\ cookies' = cookies
          /\ ledger' = ledger]_vars

\* C7: no two records of the ledger carry the same credential hash.
C7_HashUnique ==
  \A r1, r2 \in ledger : r1.token_hash = r2.token_hash => r1 = r2

\* C7 witness: an insert of a hash that a record already carries was refused.
C7_Witness ==
  /\ last.err = "SequelizeUniqueConstraintError"
  /\ \E r \in ledger : r.token_hash = hashToken(last.token)

\* C8: a committed record is never deleted and changes only by revoked_at
\* going from null to a timestamp; once set, revoked_at stays as it is.
C8_RecordsOnlyRevoked ==
  [][\A r \in Durable : \E x \in Durable' :
       /\ x.id = r.id /\ x.token_hash = r.token_hash
       /\ x.user_id = r.user_id /\ x.expires_at = r.expires_at
       /\ r.revoked_at # NULL => x.revoked_at = r.revoked_at]_vars

\* C9: recording a hash the ledger already holds ends in a conflict code
\* (DUPLICATE_RESOURCE or STATE_CONFLICT, status 409) given to sendError.
C9_DuplicateIsConflict ==
  (last.dup \/ last.err = "SequelizeUniqueConstraintError") =>
     /\ last.out.code \in {"DUPLICATE_RESOURCE", "STATE_CONFLICT"}
     /\ ERROR[last.out.code].status = 409

\* C10: under every accepted configuration no issued access token passes
\* refresh-token verification and no issued refresh token passes
\* access-token verification.
C10_KindsNeverCross ==
  \A c \in cookies :
    /\ c.name = "access_token" => ~verifyRefreshToken(env, c.value, now).ok
    /\ c.name = "refresh_token" => ~verifyAccessToken(env, c.value, now).ok

\* C11: a gate on the access token lets a request through only when the
\* token verifies; otherwise it answers 401, with TOKEN_EXPIRED for a
\* correctly signed token past its expiry and UNAUTHORIZED for every other
\* failure.
C11_GateVerdicts ==
  last.op \in {"requireAuth", "requireSession"} =>
    /\ last.next => verifyAccessToken(env, last.token, now).ok
    /\ ~last.next =>
         /\ last.out.res.sent
         /\ last.out.res.status = 401
         /\ last.out.res.code =
              IF last.token.key = env.JWT_ACCESS_SECRET /\ now >= last.token.exp
                THEN "TOKEN_EXPIRED" ELSE "UNAUTHORIZED"

\* The requests that got past requireAuth to the workspace gate.
AtWorkspaceGate == last.op = "workspace" /\ last.err # "requireAuth"
AdminBypass == last.allowAdmin /\ last.auth.role = "ADMIN"
IsMember == <<last.workspaceId, last.auth.userId>> \in members

C17_OnlyActiveAdmitted ==
  (last.op = "workspace" /\ last.next) =>
     /\ last.auth.userId \in Accounts
     /\ users[last.auth.userId].status = "ACTIVE"

\* C18: without admin bypass the workspace gate answers 404 when the
\* workspace does not exist, 403 when it exists without a membership record
\* for the identity, and lets through only a member; nothing passes that is
\* neither a member nor an administrator on bypass.
C18_MembershipGate ==
  (AtWorkspaceGate /\ last.workspaceId > 0) =>
     /\ last.next => (IsMember \/ AdminBypass)
     /\ ~AdminBypass =>
          /\ findByPk(last.workspaceId) = {} =>
               ~last.next /\ last.out.res.sent /\ last.out.res.status = 404
          /\ (findByPk(last.workspaceId) # {} /\ ~IsMember) =>
               ~last.next /\ last.out.res.sent /\ last.out.res.status = 403
          /\ (findByPk(last.workspaceId) # {} /\ IsMember) => last.next

\* The limiter reaches its verdict for request r in this step, with both
\* store calls answered.
Decides(r) == lim[r].pc # "idle" /\ lim'[r].pc = "idle" /\ last'.err = ""

\* C12: with max = 5 and windowSec = 60 the k-th request counted in a
\* window is let through iff k <= 5, a request beyond that is answered 429
\* TOO_MANY_REQUESTS, and the first request counted after the window has
\* elapsed is let through with remaining = 4.
C12_FixedWindow ==
  [][\A r \in Reqs :
       /\ Decides(r) =>
            /\ lim[r].current <= LoginMax => last'.next
            /\ lim[r].current > LoginMax =>
                 /\ ~last'.next
                 /\ last'.out.res.sent
                 /\ last'.out.res.status = 429
                 /\ last'.out.res.code = "TOO_MANY_REQUESTS"
            /\ lim[r].current = 1 => last'.headers.remaining = LoginMax - 1
       /\ (lim[r].pc = "idle" /\ lim'[r].pc = "incr"
             /\ store[lim'[r].key].expireAt # NULL
             /\ now >= store[lim'[r].key].expireAt) => lim'[r].current = 1]_vars

\* C13: no counter exists in the store without an expiry.
C13_CounterHasExpiry ==
  \A k \in Keys : live(k).count > 0 => live(k).expireAt # NULL

\* C14: when a store call fails the limiter fails open: the request goes
\* on to its handler.
C14_FailsOpen ==
  (last.op = "rateLimit" /\ last.err \in {"redis error: incr", "redis error: expire"})
     => last.next

LogoutOfRevoked ==
  /\ last = NoLast /\ last'.op = "logout"
  /\ \E r \in RecordOf(last'.token) : r.revoked_at # NULL

\* The ledger without its history columns.
Stored(L) ==
  {[id |-> r.id, user_id |-> r.user_id, token_hash |-> r.token_hash,
    expires_at |-> r.expires_at, revoked_at |-> r.revoked_at] : r \in L}

\* C19: a logout presenting a credential whose record is already revoked
\* succeeds and leaves the ledger, that record's revoked_at included, as
\* it was.
C19_LogoutIdempotent ==
  [][LogoutOfRevoked =>
       /\ Stored(ledger') = Stored(ledger)
       /\ last'.out.res.sent /\ last'.out.res.success]_vars

\* C19 witness: a logout completed on a record revoked at an earlier time.
C19_Witness ==
  /\ last.op = "logout" /\ last.out.res.success
  /\ \E r \in ledger : /\ r.token_hash = hashToken(last.token)
                       /\ r.revoked_at # NULL /\ r.revoked_at < now

\* C20: once a logout presenting credential C has completed, C's record is
\* revoked from then on and no rotation attempt with C succeeds.
C20_LoggedOutStaysOut ==
  [][/\ \A r \in Durable' : r.loggedOut => r.revoked_at # NULL
     /\ (RefreshEnds /\ \E r \in RecordOf(last'.token) : r.loggedOut)
           => last'.out.code # "OK"]_vars

\* C21: a rotation that succeeds leaves its successor recorded, unrevoked
\* and unexpired, and the first rotation attempt that presents such a
\* successor while it is ACTIVE succeeds (the database not failing),
\* however soon after the successor was issued.
C21_SuccessorRotates ==
  [][RefreshEnds =>
       /\ last'.out.code = "OK" =>
            \E r \in Durable' : /\ r.from = hashToken(last'.token)
                                /\ r.revoked_at = NULL /\ r.expires_at >= now
       /\ (/\ IsActive(last'.token)
           /\ \E r \in RecordOf(last'.token) : r.from # NoHash
           /\ SuccessorsOf(last'.token) = {}
           /\ last'.err \notin DbErrors) => last'.out.code = "OK"]_vars

\* C22: whenever a gate or handler has called sendError, the code it handed
\* over is a known one, the call completed without throwing, and the
\* response written carries success = false, that code, the message and
\* the status registered for the code.
C22_CommonErrorFormat ==
  last.out.code \notin {"", "OK"} =>
    /\ last.out.code \in DOMAIN ERROR
    /\ LET r == sendError(last.out.code, last.out.message)
       IN /\ r.sent /\ ~r.success
          /\ r.code = last.out.code /\ r.message = last.out.message
          /\ r.status = ERROR[last.out.code].status
          /\ last.out.res = r

\* A credential of the wrong kind: handed out as access_token only.
WrongKind(token) ==
  /\ Cookie("access_token", token) \in cookies
  /\ Cookie("refresh_token", token) \notin cookies

\* The presented credential does not pass as a long-lived one: signature,
\* form, kind or signed expiry.
FailsCodec(token) ==
  token # NoToken /\ (~verifyRefreshToken(env, token, now).ok \/ WrongKind(token))

\* C23: a rotation request whose credential fails verification is answered
\* with the UNAUTHORIZED or TOKEN_EXPIRED error response, and it ends
\* before a transaction is opened, with the ledger as it was.
C23_RejectedBeforeLedger ==
  [][(RefreshEnds /\ FailsCodec(last'.token)) =>
       /\ last'.out.res.sent
       /\ last'.out.res.code \in {"UNAUTHORIZED", "TOKEN_EXPIRED"}
       /\ rq' = rq
       /\ ledger' = ledger]_vars

\* C24: in every state, each long-lived credential a client has been
\* handed has its record durably in the ledger, and if that record was
\* made by a rotation, the record of the credential it was rotated from
\* is durably revoked.
C24_HandedOutAfterCommit ==
  \A c \in cookies :
    c.name = "refresh_token" =>
      /\ RecordOf(c.value) # {}
      /\ \A r \in RecordOf(c.value) :
           r.from # NoHash =>
             \E pre \in Durable : pre.token_hash = r.from /\ pre.revoked_at # NULL

\* Request p is inside its transaction and its next statement waits for a
\* lock that another transaction holds: the row lock of findOne, the user
\* lock of User.findOne, or the pending insert of the same unique key.
Waits(p) ==
  \/ /\ rq[p].pc = "tx"
     /\ \E r \in findByHash(ledger, hashToken(rq[p].token)) : ~RowFree(p, r.id)
  \/ rq[p].pc = "row" /\ ~UserFree(p, rq[p].userId)
  \/ /\ rq[p].pc = "revoked"
     /\ ~NoPendingInsert(ledger,
           hashToken(signRefreshToken(env, [sub |-> String(rq[p].userId),
                                            role |-> rq[p].role], now)))

Running(q) == rq[q].pc # "idle"

\* C25 as stated: a rotation waits only for a rotation in progress that
\* presents the same credential.
C25_OnlySameCredentialWaits ==
  \A p \in Procs :
    Waits(p) => \E q \in Procs \ {p} : Running(q) /\ rq[q].token = rq[p].token

\* C25: a rotation waits only for a rotation in progress that presents the
\* same credential or a credential of the same user; it never waits for a
\* rotation of another user.
C25_OnlySameUserWaits ==
  \A p \in Procs :
    Waits(p) => \E q \in Procs \ {p} :
                  /\ Running(q)
                  /\ \/ rq[q].token = rq[p].token
                     \/ rq[q].userId = rq[p].userId

\* C25 witness: the rotations of two different users hold their locks at
\* the same time, past every lock request of the transaction.
C25_Witness ==
  /\ rq["p1"].pc = "inserted" /\ rq["p2"].pc = "inserted"
  /\ rq["p1"].userId # rq["p2"].userId

\* A step that gives key k a time-to-live it did not have.
SetsTtl(k) == store'[k].expireAt # NULL /\ store'[k].expireAt # store[k].expireAt

\* Request r, whose increment returned 1, leaves the middleware.
FirstLeaves(r) == lim[r].pc # "idle" /\ lim[r].current = 1 /\ lim'[r].pc = "idle"

Min(a, b) == IF a < b THEN a ELSE b

\* C27: two requests counted by the same key in the same window never hold
\* the same counter value, and once each of the N requests a window has
\* counted was let through or turned away, exactly min(N, max) of them
\* were let through and the other N - min(N, max), counted as well, were
\* turned away.
C27_ExactlyMaxAllowed ==
  /\ \A a, b \in Reqs :
       (/\ a # b /\ lim[a].pc # "idle" /\ lim[b].pc # "idle"
        /\ lim[a].key = lim[b].key /\ lim[a].born = lim[b].born)
          => lim[a].current # lim[b].current
  /\ \A k \in Keys :
       (live(k).count > 0 /\ live(k).allowed + live(k).rejected = live(k).count)
          => /\ live(k).allowed = Min(live(k).count, LoginMax)
             /\ live(k).rejected = live(k).count - Min(live(k).count, LoginMax)

\* C27 witness: a window counted two requests more than max, all of them
\* have their verdict, and the latest one was turned away.
C27_Witness ==
  /\ last.op = "rateLimit" /\ ~last.next
  /\ \E k \in Keys : /\ live(k).count = LoginMax + 2
                     /\ live(k).allowed = LoginMax
                     /\ live(k).rejected = 2

\* C28: no login, social login or rotation signs a long-lived credential
\* whose hash a ledger row already carries: none ends on the unique index
\* and none writes over an existing row.
C28_NoHashCollision ==
  last.op \in {"login", "social", "refresh"} =>
    ~last.dup /\ last.err # "SequelizeUniqueConstraintError"

\* The user a request comes from: the subject of a token that passes
\* access-token verification, 0 for any other caller.
Requester ==
  IF last.token # NoToken /\ verifyAccessToken(env, last.token, now).ok
    THEN parseInt(last.token.sub) ELSE 0

\* C29: a request answered from the cache has passed access-token
\* verification and comes from the user for whose request the body was
\* produced.
C29_CacheBoundToIdentity ==
  (last.op = "GET" /\ last.hit) => (Requester # 0 /\ Requester = last.body.by)

\* C30: a GET is never answered from a cache entry that was written before
\* a mutation under the prefix which the same user has completed
\* successfully since.
C30_NoStaleAfterMutation ==
  (last.op = "GET" /\ last.hit /\ Requester # 0) => Requester \notin last.before

====
